---- MODULE Spec2Model ----
(***************************************************************************)
(* State-machine model of the PieChart component (src/charts/pie.rs).      *)
(*                                                                         *)
(* One render of the component is one behaviour: the props are fixed in    *)
(* Init, then the empty-series check, the set-up of the locals, one step   *)
(* per entry of the normalized series (the closure of the `map`), and the  *)
(* emission of the labels.                                                 *)
(*                                                                         *)
(* f32 values are modelled bit for bit: a finite value is <<m, e>>,        *)
(* standing for m * 2^e, with 2^23 <= |m| < 2^24 (|m| < 2^23 only for the  *)
(* subnormals, e = -149), zero is <<0, 0>>, and every operation rounds to  *)
(* nearest, ties to even.  The sign of zero is not modelled.               *)
(***************************************************************************)
EXTENDS Integers, Sequences, FiniteSets, TLC

\* Longest series the generic part of the model enumerates.
MaxLen == 3

-----------------------------------------------------------------------------
(* f32 *)
\* Powers of two used to split 24-bit significands.
TwoP22 == 4194304
TwoP23 == 8388608
TwoP24 == 16777216
TwoP12 == 4096
\* Exponent of the smallest subnormal, largest exponent of a 24-bit
\* significand, and the exponent that marks the non-finite values.
EMin == -149
EMax == 104
NonFinite == 1000

Abs(x) == IF x < 0 THEN -x ELSE x

Sgn(x) == IF x < 0 THEN -1 ELSE IF x > 0 THEN 1 ELSE 0

\* Number of bits of n >= 0.
RECURSIVE BitLenSmall(_)
BitLenSmall(n) == IF n = 0 THEN 0 ELSE 1 + BitLenSmall(n \div 2)

BitLen(n) ==
    IF n < TwoP23 THEN BitLenSmall(n)
    ELSE IF n < TwoP24 THEN 24
    ELSE 24 + BitLenSmall(n \div TwoP24)

Zero == <<0, 0>>
Inf == <<1, NonFinite>>
NegInf == <<-1, NonFinite>>
NaN == <<0, NonFinite>>

IsFinite(a) == a[2] # NonFinite
IsNaN(a) == a = NaN

SignedInf(s) == IF s < 0 THEN NegInf ELSE Inf

\* Overflow goes to an infinity.
Pack(s, m, e) == IF e > EMax THEN SignedInf(s) ELSE <<s * m, e>>

\* A significand q1 <= 2^24 with its exponent: 2^24 carries into the
\* exponent.
PackCarry(s, q1, e) ==
    IF q1 = 0 THEN Zero
    ELSE IF q1 = TwoP24 THEN Pack(s, TwoP23, e + 1)
    ELSE Pack(s, q1, e)

\* Ties to even: the dropped bits r against half a unit of the last place.
RoundsUp(r, half, sticky, odd) == r > half \/ (r = half /\ (sticky \/ odd))

\* Bits to drop from mant so that 24 are left, or more when the result is
\* subnormal.
DropBits(mant, exp) ==
    IF EMin - exp > BitLen(mant) - 24 THEN EMin - exp ELSE BitLen(mant) - 24

RoundDrop(s, mant, exp, sticky, k) ==
    IF mant = 0 THEN Zero
    ELSE IF k <= 0 THEN Pack(s, mant * 2^(-k), exp + k)
    ELSE IF k > 30 THEN Zero
    ELSE PackCarry(s,
                   IF RoundsUp(mant % 2^k, 2^(k - 1), sticky,
                               (mant \div 2^k) % 2 = 1)
                   THEN mant \div 2^k + 1 ELSE mant \div 2^k,
                   exp + k)

\* The f32 nearest to s * (mant + t) * 2^exp, ties to even, where t is 0,
\* or lies strictly between 0 and 1 when sticky.
Round(s, mant, exp, sticky) ==
    RoundDrop(s, mant, exp, sticky, DropBits(mant, exp))

\* n as f32.
F(n) == Round(Sgn(n), Abs(n), 0, FALSE)

FNeg(a) == <<-a[1], a[2]>>

FAbs(a) == <<Abs(a[1]), a[2]>>

\* The sum of sx * X and sy * (Y + t) in units of 2^e, where t is 0, or
\* lies strictly between 0 and 1 when sticky (and then X > Y).
AddMags(sx, sy, X, Y, sticky, e) ==
    Round(IF sx = sy \/ X > Y THEN sx ELSE sy,
          IF sx = sy THEN X + Y
          ELSE Abs(X - Y) - (IF sticky THEN 1 ELSE 0),
          e, sticky)

\* x + y for finite non-zero x, y with the exponent of x the larger: y is
\* shifted to the exponent of x, with three guard bits.
AddAligned(x, y) ==
    AddMags(Sgn(x[1]), Sgn(y[1]), Abs(x[1]) * 8,
            IF x[2] - y[2] > 27 THEN 0
            ELSE (Abs(y[1]) * 8) \div 2^(x[2] - y[2]),
            IF x[2] - y[2] > 27 THEN TRUE
            ELSE (Abs(y[1]) * 8) % 2^(x[2] - y[2]) # 0,
            x[2] - 3)

\* IEEE addition.
FAdd(a, b) ==
    IF IsNaN(a) \/ IsNaN(b) THEN NaN
    ELSE IF ~IsFinite(a) THEN (IF ~IsFinite(b) /\ a # b THEN NaN ELSE a)
    ELSE IF ~IsFinite(b) THEN b
    ELSE IF a[1] = 0 THEN b
    ELSE IF b[1] = 0 THEN a
    ELSE IF a[2] >= b[2] THEN AddAligned(a, b)
    ELSE AddAligned(b, a)

FSub(a, b) == FAdd(a, FNeg(b))

\* Magnitude of the significand shifted to 24 bits, and the shift.
NormShift(a) == 24 - BitLen(Abs(a[1]))
NormMant(a) == Abs(a[1]) * 2^NormShift(a)
NormExp(a) == a[2] - NormShift(a)

\* <<high 24 bits, low 24 bits>> of the 48-bit product of two 24-bit
\* significands, from their 12-bit halves.
ProductCarry(hi0, lofull) == <<hi0 + lofull \div TwoP24, lofull % TwoP24>>

ProductSum(hh, cross, ll) ==
    ProductCarry(hh + cross \div TwoP12, ll + (cross % TwoP12) * TwoP12)

ProductHalves(a1, a0, b1, b0) == ProductSum(a1 * b1, a1 * b0 + a0 * b1, a0 * b0)

Product(A, B) ==
    ProductHalves(A \div TwoP12, A % TwoP12, B \div TwoP12, B % TwoP12)

\* The f32 nearest to s * (hl[1] * 2^24 + hl[2]) * 2^(e - 22).
RoundProduct(s, hl, e) ==
    Round(s, hl[1] * 4 + hl[2] \div TwoP22, e, hl[2] % TwoP22 # 0)

\* IEEE multiplication.
FMul(a, b) ==
    IF IsNaN(a) \/ IsNaN(b) THEN NaN
    ELSE IF ~IsFinite(a) \/ ~IsFinite(b) THEN
        (IF a[1] = 0 \/ b[1] = 0 THEN NaN
         ELSE SignedInf(Sgn(a[1]) * Sgn(b[1])))
    ELSE IF a[1] = 0 \/ b[1] = 0 THEN Zero
    ELSE RoundProduct(Sgn(a[1]) * Sgn(b[1]),
                      Product(NormMant(a), NormMant(b)),
                      NormExp(a) + NormExp(b) + 22)

\* <<quotient, remainder>> of (q * B + r) * w by B, for r < B < 2^24 and
\* w <= 128.
DivStep(qr, B, w) ==
    <<qr[1] * w + (qr[2] * w) \div B, (qr[2] * w) % B>>

\* <<quotient, remainder>> of A * 2^26 by B.
DivLoop(A, B) ==
    DivStep(DivStep(DivStep(DivStep(<<A \div B, A % B>>, B, 128), B, 128),
                    B, 64), B, 64)

\* The f32 nearest to s * (qr[1] + t) * 2^e, t > 0 when a remainder is left.
RoundQuotient(s, qr, e) == Round(s, qr[1], e, qr[2] # 0)

\* IEEE division: 26 quotient bits by long division.
FDiv(a, b) ==
    IF IsNaN(a) \/ IsNaN(b) THEN NaN
    ELSE IF ~IsFinite(a) THEN
        (IF ~IsFinite(b) THEN NaN
         ELSE SignedInf(Sgn(a[1]) * (IF b[1] < 0 THEN -1 ELSE 1)))
    ELSE IF ~IsFinite(b) THEN Zero
    ELSE IF b[1] = 0 THEN (IF a[1] = 0 THEN NaN ELSE SignedInf(Sgn(a[1])))
    ELSE IF a[1] = 0 THEN Zero
    ELSE RoundQuotient(Sgn(a[1]) * Sgn(b[1]),
                       DivLoop(NormMant(a), NormMant(b)),
                       NormExp(a) - NormExp(b) - 26)

\* a < b; false when either is NaN.
FLt(a, b) ==
    IF IsNaN(a) \/ IsNaN(b) THEN FALSE
    ELSE IF a = b THEN FALSE
    ELSE IF ~IsFinite(a) THEN a = NegInf
    ELSE IF ~IsFinite(b) THEN b = Inf
    ELSE IF Sgn(a[1]) # Sgn(b[1]) THEN Sgn(a[1]) < Sgn(b[1])
    ELSE IF a[1] > 0 THEN a[2] < b[2] \/ (a[2] = b[2] /\ a[1] < b[1])
    ELSE a[2] > b[2] \/ (a[2] = b[2] /\ a[1] < b[1])

FLe(a, b) == ~IsNaN(a) /\ ~IsNaN(b) /\ ~FLt(b, a)

\* f32::max and f32::min: a NaN operand is ignored.
FMax(a, b) ==
    IF IsNaN(a) THEN b
    ELSE IF IsNaN(b) THEN a
    ELSE IF FLt(a, b) THEN b ELSE a

FMin(a, b) ==
    IF IsNaN(a) THEN b
    ELSE IF IsNaN(b) THEN a
    ELSE IF FLt(b, a) THEN b ELSE a

\* f32::clamp
Clamp(r, lo, hi) == IF FLt(r, lo) THEN lo ELSE IF FLt(hi, r) THEN hi ELSE r

\* The f32 nearest to n / d: the value of a decimal literal such as 0.4.
FQ(n, d) == FDiv(F(n), F(d))

\* Iterator::sum: a left fold from zero.
RECURSIVE SumFrom(_, _)
SumFrom(acc, s) == IF s = <<>> THEN acc ELSE SumFrom(FAdd(acc, s[1]), Tail(s))

SumSeq(s) == SumFrom(Zero, s)

\* The whole number nearest to a finite a (halves go up).
NearestInt(a) ==
    IF a[2] >= 0 THEN a[1] * 2^a[2]
    ELSE IF -a[2] > 25 THEN 0
    ELSE (a[1] + 2^(-a[2] - 1)) \div 2^(-a[2])

-----------------------------------------------------------------------------
(* Option<T>: <<>> is None, <<x>> is Some(x) *)

None == <<>>
Some(x) == <<x>>
IsSome(o) == o # <<>>

-----------------------------------------------------------------------------
(* Collaborators from crate::utils and crate::types *)

Point(px, py) == [x |-> px, y |-> py]

\* normalize_series: every entry >= 0, same length and order; negatives
\* are clamped to zero, zero stays zero.
normalize_series(series) ==
    [k \in 1..Len(series) |-> FMax(series[k], Zero)]

\* sin(d degrees) * 10000 for d = 0..90.
SinTable ==
    <<0, 175, 349, 523, 698, 872, 1045, 1219, 1392, 1564, 1736, 1908, 2079,
      2250, 2419, 2588, 2756, 2924, 3090, 3256, 3420, 3584, 3746, 3907, 4067,
      4226, 4384, 4540, 4695, 4848, 5000, 5150, 5299, 5446, 5592, 5736, 5878,
      6018, 6157, 6293, 6428, 6561, 6691, 6820, 6947, 7071, 7193, 7314, 7431,
      7547, 7660, 7771, 7880, 7986, 8090, 8192, 8290, 8387, 8480, 8572, 8660,
      8746, 8829, 8910, 8988, 9063, 9135, 9205, 9272, 9336, 9397, 9455, 9511,
      9563, 9613, 9659, 9703, 9744, 9781, 9816, 9848, 9877, 9903, 9925, 9945,
      9962, 9976, 9986, 9994, 9998, 10000>>

SinTableF == [k \in 1..91 |-> FQ(SinTable[k], 10000)]

\* Index into the table of the sine of m degrees, 0 <= m < 360, up to sign.
SinIndex(m) ==
    IF m <= 90 THEN m + 1
    ELSE IF m <= 180 THEN 180 - m + 1
    ELSE IF m <= 270 THEN m - 180 + 1
    ELSE 360 - m + 1

SinSigned(negative, a) == IF negative THEN FNeg(a) ELSE a

\* sin of a whole number of degrees.
SinDeg(d) == SinSigned(d % 360 > 180, SinTableF[SinIndex(d % 360)])

CosDeg(d) == SinDeg(d + 90)

\* The point at distance radius from center, a whole degrees clockwise
\* from the x axis.
PointAt(center, radius, a) ==
    Point(FAdd(center.x, FMul(radius, CosDeg(a))),
          FAdd(center.y, FMul(radius, SinDeg(a))))

\* polar_to_cartesian: 0 degrees points up, angles grow clockwise; the
\* angle is taken to the nearest whole degree.
polar_to_cartesian(center, radius, angle_in_degrees) ==
    IF ~IsFinite(angle_in_degrees) THEN Point(NaN, NaN)
    ELSE PointAt(center, radius, NearestInt(angle_in_degrees) - 90)

-----------------------------------------------------------------------------
(* Props of one render *)

LabelPosition == {"Inside", "Outside", "Center"}

\* Defaults of PieChartProps.
DefaultViewboxWidth == 600
DefaultViewboxHeight == 400
DefaultDonutWidth == 40

\* Values the entries of a series are drawn from.
Values == {F(-1), F(0), F(1), F(999)}

SeriesSet == UNION {[1..n -> Values] : n \in 0..MaxLen}

StartAngles == {F(-60), F(0), F(10)}

\* <<total, show_ratio>>
TotalRatioSet ==
    { <<None, None>>,
      <<Some(F(2000)), None>>,
      <<Some(F(1)), None>>,
      <<None, Some(FQ(1, 2))>>,
      <<None, Some(F(0))>>,
      <<None, Some(F(2))>>,
      <<Some(F(2000)), Some(FQ(1, 2))>> }

\* <<donut, donut_width, padding>>
ShapeSet ==
    { <<FALSE, F(DefaultDonutWidth), F(0)>>,
      <<TRUE, F(DefaultDonutWidth), F(0)>>,
      <<TRUE, F(200), F(0)>>,
      <<FALSE, F(DefaultDonutWidth), F(20)>> }

\* <<label_position, label_offset>>
LabelPlaceSet ==
    { <<"Inside", F(0)>>, <<"Outside", F(150)>>, <<"Center", F(0)>> }

\* <<labels given, show_labels, label_interpolation given>>
LabelModeSet ==
    { <<FALSE, TRUE, FALSE>>, <<FALSE, FALSE, FALSE>>, <<TRUE, FALSE, FALSE>>,
      <<FALSE, TRUE, TRUE>> }

\* <<shape, label placement, label mode>>: the shapes with the default
\* labels, and the label settings with the default shape.
LayoutSet ==
    { <<sh, <<"Inside", F(0)>>, <<FALSE, TRUE, FALSE>> >> : sh \in ShapeSet }
    \cup
    { << <<FALSE, F(DefaultDonutWidth), F(0)>>, lp, lm>> :
          lp \in LabelPlaceSet, lm \in LabelModeSet }

\* The explicit labels of a series of n entries: label k names entry k.
LabelsFor(n) == [k \in 1..n |-> k]

MkProps(series, start_angle, tr, layout) ==
    [ series |-> series,
      labels |-> IF layout[3][1] THEN Some(LabelsFor(Len(series))) ELSE None,
      viewbox_width |-> DefaultViewboxWidth,
      viewbox_height |-> DefaultViewboxHeight,
      show_labels |-> layout[3][2],
      label_interpolation |->
          IF layout[3][3] THEN Some("label_interpolation") ELSE None,
      label_position |-> layout[2][1],
      label_offset |-> layout[2][2],
      start_angle |-> start_angle,
      total |-> tr[1],
      show_ratio |-> tr[2],
      padding |-> layout[1][3],
      donut |-> layout[1][1],
      donut_width |-> layout[1][2] ]

DefaultLayout ==
    << <<FALSE, F(DefaultDonutWidth), F(0)>>, <<"Inside", F(0)>>,
       <<FALSE, TRUE, FALSE>> >>

\* Inputs on which the rounding of f32 decides the outcome: a slice of
\* exactly half the total whose f32 span exceeds 180, a start angle that is
\* no f32, and a raw sum that f32 folds to zero.
RoundingProps ==
    { MkProps(<<F(21), F(23), F(2)>>, F(0), <<None, None>>, DefaultLayout),
      MkProps(<<F(5), F(9), F(22), F(8)>>, F(0), <<None, None>>,
              DefaultLayout),
      MkProps(<<F(1), F(1)>>, FQ(1, 5), <<None, None>>, DefaultLayout),
      MkProps(<<F(100000000), F(1), F(-100000000)>>, F(0),
              <<Some(F(5)), None>>, DefaultLayout) }

\* Every total and ratio with the default layout, every layout with the
\* natural total, and the rounding inputs.
PropsSet ==
    { MkProps(s, a, tr, DefaultLayout) :
          s \in SeriesSet, a \in StartAngles, tr \in TotalRatioSet }
    \cup
    { MkProps(s, a, <<None, None>>, lay) :
          s \in SeriesSet, a \in StartAngles, lay \in LayoutSet }
    \cup RoundingProps

-----------------------------------------------------------------------------
(* The locals computed before the walk (pie.rs 134-155) *)

center(p) == Point(FQ(p.viewbox_width, 2), FQ(p.viewbox_height, 2))

CenterMin(c) == FMin(c.x, c.y)

center_min(p) == CenterMin(center(p))

radius(p) == FSub(FSub(center_min(p), F(30)), p.padding)

LabelRadius(label_position, label_offset, r) ==
    CASE label_position = "Inside" -> FAdd(FDiv(r, F(2)), label_offset)
      [] label_position = "Outside" -> FAdd(r, label_offset)
      [] label_position = "Center" -> FAdd(F(0), label_offset)

label_radius(p) == LabelRadius(p.label_position, p.label_offset, radius(p))

normalized_sum(p) == SumSeq(normalize_series(p.series))

raw_sum(p) == SumSeq(p.series)

\* values_total without the `.max(normalized_sum)` of the total branch.
values_total_NoMax(p) ==
    IF IsSome(p.show_ratio) THEN
        FMul(FDiv(F(1), Clamp(p.show_ratio[1], FQ(1, 10000), F(1))),
             normalized_sum(p))
    ELSE IF IsSome(p.total) THEN
        FMul(FDiv(normalized_sum(p), raw_sum(p)), p.total[1])
    ELSE normalized_sum(p)

\* pie.rs 153-154: the total branch, never below the normalized sum.
TotalBranch(nsum, rsum, total) == FMax(FMul(FDiv(nsum, rsum), total), nsum)

values_total(p) ==
    IF IsSome(p.show_ratio) THEN
        FMul(FDiv(F(1), Clamp(p.show_ratio[1], FQ(1, 10000), F(1))),
             normalized_sum(p))
    ELSE IF IsSome(p.total) THEN
        TotalBranch(normalized_sum(p), raw_sum(p), p.total[1])
    ELSE normalized_sum(p)

-----------------------------------------------------------------------------
(* One step of the walk on a non-zero entry (pie.rs 173-189, 219).         *)
(* `correction` is TRUE in the component; FALSE gives the same step with   *)
(* the 0.4-degree overlap left out, used as the reference walk.            *)

FullCircle == FQ(35999, 100)

Overlap == FQ(2, 5)

\* pie.rs 178-182
OverlapStart(m_start_angle, class_index, correction) ==
    IF class_index # 0 /\ correction
    THEN FMax(FSub(m_start_angle, Overlap), F(0))
    ELSE m_start_angle

\* pie.rs 174, from the angle `from`; the component's guard on a positive
\* total is kept.
EndAngle(from, v, vtotal) ==
    IF FLt(F(0), vtotal)
    THEN FAdd(from, FMul(FDiv(v, vtotal), F(360)))
    ELSE F(0)

\* pie.rs 189 and 219, with the span of the flag measured from span_start.
AnglesRecord(m_start_angle, overlap_start_angle, clamped, end_angle, span_start) ==
    [ start_angle |-> m_start_angle,
      overlap_start_angle |-> overlap_start_angle,
      end_angle |-> end_angle,
      clamped |-> clamped,
      large_arc |->
          IF FLt(F(180), FSub(end_angle, span_start)) THEN 1 ELSE 0,
      mid_angle |->
          FAdd(m_start_angle, FDiv(FSub(end_angle, m_start_angle), F(2))) ]

\* pie.rs 183-185
AnglesClamped(m_start_angle, overlap_start_angle, clamped, end0, span_start) ==
    AnglesRecord(m_start_angle, overlap_start_angle, clamped,
                 IF clamped THEN FAdd(overlap_start_angle, FullCircle)
                 ELSE end0,
                 span_start)

AnglesFrom(m_start_angle, overlap_start_angle, end0, span_start) ==
    AnglesClamped(m_start_angle, overlap_start_angle,
                  FLe(FullCircle, FSub(end0, overlap_start_angle)), end0,
                  span_start)

\* SliceAngles with the end angle measured from the overlapped start, so
\* that the overlap is carried into the next slice.
SliceAngles_Compounding(v, m_start_angle, class_index, vtotal, correction) ==
    AnglesFrom(m_start_angle,
               OverlapStart(m_start_angle, class_index, correction),
               EndAngle(OverlapStart(m_start_angle, class_index, correction),
                        v, vtotal),
               m_start_angle)

\* SliceAngles with the large-arc flag taken from the drawn sweep.
SliceAngles_DrawnFlag(v, m_start_angle, class_index, vtotal, correction) ==
    AnglesFrom(m_start_angle,
               OverlapStart(m_start_angle, class_index, correction),
               EndAngle(m_start_angle, v, vtotal),
               OverlapStart(m_start_angle, class_index, correction))

SliceAngles(v, m_start_angle, class_index, vtotal, correction) ==
    AnglesFrom(m_start_angle,
               OverlapStart(m_start_angle, class_index, correction),
               EndAngle(m_start_angle, v, vtotal),
               m_start_angle)

\* The path of a slice (pie.rs 191-205), as the parts that are formatted
\* into the `d` attribute.
PathParts(donut, c, r, donut_radius, a) ==
    IF donut THEN
        [ kind |-> "donut",
          move |-> polar_to_cartesian(c, r, a.end_angle),
          arc_radius |-> r,
          large_arc |-> a.large_arc,
          arc_to |-> polar_to_cartesian(c, r, a.overlap_start_angle),
          line_to |->
              polar_to_cartesian(c, donut_radius, a.overlap_start_angle),
          inner_radius |-> donut_radius,
          large_arc_inside |-> a.large_arc,
          inner_arc_to |-> polar_to_cartesian(c, donut_radius, a.end_angle) ]
    ELSE
        [ kind |-> "wedge",
          move |-> polar_to_cartesian(c, r, a.end_angle),
          arc_radius |-> r,
          large_arc |-> a.large_arc,
          arc_to |-> polar_to_cartesian(c, r, a.overlap_start_angle),
          line_to |-> c ]

\* pie.rs 191: donut_radius
DonutRadius(r, donut_width) == FSub(r, donut_width)

SlicePathAt(p, r, a) ==
    PathParts(p.donut, center(p), r, DonutRadius(r, p.donut_width), a)

SlicePath(p, a) == SlicePathAt(p, radius(p), a)

\* The anchor pushed for a zero entry (pie.rs 226).
SuppressedAnchor == Point(F(-1), F(-1))

\* The test that decides whether a label is drawn (pie.rs 234, 262).
LabelShown(position) == FLt(F(0), position.x)

-----------------------------------------------------------------------------
(* State *)

VARIABLES
    props,             \* cx.props
    pc,                \* "start", "walk", "labels", "done", "error"
    idx,               \* position of the iterator over normalized_series
    normalized_series,
    vtotal,            \* values_total
    m_start_angle,
    color_var,
    class_index,
    label_positions,
    slices,            \* the <g> elements emitted, in order
    labels_out,        \* the <text> elements emitted, in order
    message,           \* the error text rendered, or None
    ref_start_angle,   \* running angle of the walk without the overlap
    ref_walk           \* angles of the walk without the overlap

vars ==
    <<props, pc, idx, normalized_series, vtotal, m_start_angle, color_var,
      class_index, label_positions, slices, labels_out, message,
      ref_start_angle, ref_walk>>

Init ==
    /\ props \in PropsSet
    /\ pc = "start"
    /\ idx = 0
    /\ normalized_series = <<>>
    /\ vtotal = F(0)
    /\ m_start_angle = F(0)
    /\ color_var = F(0)
    /\ class_index = 0
    /\ label_positions = <<>>
    /\ slices = <<>>
    /\ labels_out = <<>>
    /\ message = None
    /\ ref_start_angle = F(0)
    /\ ref_walk = <<>>

-----------------------------------------------------------------------------
(* Actions *)

\* RenderEmpty without the early return: the render goes on to the labels.
RenderEmpty_NoReturn ==
    /\ pc = "start"
    /\ props.series = <<>>
    /\ pc' = "labels"
    /\ UNCHANGED <<props, idx, normalized_series, vtotal, m_start_angle,
                   color_var, class_index, label_positions, slices,
                   labels_out, message, ref_start_angle, ref_walk>>

\* pie.rs 130-132
RenderEmpty ==
    /\ pc = "start"
    /\ props.series = <<>>
    /\ pc' = "error"
    /\ message' = Some("Pie chart error: empty series")
    /\ UNCHANGED <<props, idx, normalized_series, vtotal, m_start_angle,
                   color_var, class_index, label_positions, slices,
                   labels_out, ref_start_angle, ref_walk>>

\* pie.rs 134-160
Setup ==
    /\ pc = "start"
    /\ props.series # <<>>
    /\ normalized_series' = normalize_series(props.series)
    /\ vtotal' = values_total(props)
    /\ m_start_angle' = props.start_angle
    /\ color_var' = F(255)
    /\ class_index' = 0
    /\ label_positions' = <<>>
    /\ idx' = 1
    /\ pc' = "walk"
    /\ ref_start_angle' = props.start_angle
    /\ UNCHANGED <<props, slices, labels_out, message, ref_walk>>

\* Where the iterator stands after entry idx.
AfterEntry == IF idx = Len(normalized_series) THEN "labels" ELSE "walk"

\* pie.rs 191-223: what the closure emits and updates for a slice with
\* angles a; r holds the angles of the walk without the overlap.
Emit(a, r) ==
    /\ slices' = Append(slices,
            [ index |-> class_index,
              entry |-> idx,
              angles |-> a,
              path |-> SlicePath(props, a),
              color |-> color_var ])
    /\ label_positions' = Append(label_positions,
            polar_to_cartesian(center(props), label_radius(props),
                               a.mid_angle))
    /\ color_var' =
           FSub(color_var, FMul(F(75), FDiv(F(1), F(class_index + 1))))
    /\ class_index' = class_index + 1
    /\ m_start_angle' = a.end_angle
    /\ ref_start_angle' = r.end_angle
    /\ ref_walk' = Append(ref_walk, r)

\* pie.rs 172-224: the closure on a non-zero entry
EmitSlice ==
    /\ pc = "walk"
    /\ idx <= Len(normalized_series)
    /\ normalized_series[idx] # Zero
    /\ Emit(SliceAngles(normalized_series[idx], m_start_angle, class_index,
                        vtotal, TRUE),
            SliceAngles(normalized_series[idx], ref_start_angle, class_index,
                        vtotal, FALSE))
    /\ idx' = idx + 1
    /\ pc' = AfterEntry
    /\ UNCHANGED <<props, normalized_series, vtotal, labels_out, message>>

\* SkipZero without the push of the sentinel anchor.
SkipZero_NoAnchor ==
    /\ pc = "walk"
    /\ idx <= Len(normalized_series)
    /\ normalized_series[idx] = Zero
    /\ idx' = idx + 1
    /\ pc' = AfterEntry
    /\ UNCHANGED <<props, normalized_series, vtotal, m_start_angle, color_var,
                   class_index, label_positions, slices, labels_out, message,
                   ref_start_angle, ref_walk>>

\* SkipZero that also counts the entry as a slice.
SkipZero_Counted ==
    /\ pc = "walk"
    /\ idx <= Len(normalized_series)
    /\ normalized_series[idx] = Zero
    /\ label_positions' = Append(label_positions, SuppressedAnchor)
    /\ class_index' = class_index + 1
    /\ idx' = idx + 1
    /\ pc' = AfterEntry
    /\ UNCHANGED <<props, normalized_series, vtotal, m_start_angle, color_var,
                   slices, labels_out, message, ref_start_angle, ref_walk>>

\* pie.rs 225-228: the closure on a zero entry
SkipZero ==
    /\ pc = "walk"
    /\ idx <= Len(normalized_series)
    /\ normalized_series[idx] = Zero
    /\ label_positions' = Append(label_positions, SuppressedAnchor)
    /\ idx' = idx + 1
    /\ pc' = AfterEntry
    /\ UNCHANGED <<props, normalized_series, vtotal, m_start_angle, color_var,
                   class_index, slices, labels_out, message, ref_start_angle,
                   ref_walk>>

\* The <text> elements of zip(label_positions, texts): pairs up to the
\* shorter of the two, one element per pair that passes the test.
RECURSIVE ZipLabels(_, _, _)
ZipLabels(positions, texts, k) ==
    IF k > Len(positions) \/ k > Len(texts) THEN <<>>
    ELSE (IF LabelShown(positions[k])
          THEN <<[entry |-> k, position |-> positions[k], text |-> texts[k]]>>
          ELSE <<>>)
         \o ZipLabels(positions, texts, k + 1)

\* The text of a <text> element: a given label, func(value) of the
\* label_interpolation prop, or value.to_string().
LabelText(l) == [kind |-> "label", of |-> l]
FuncText(func, value) == [kind |-> func, of |-> value]
ToStringText(value) == [kind |-> "to_string", of |-> value]

\* pie.rs 230-251
LabelsExplicit ==
    /\ pc = "labels"
    /\ IsSome(props.labels)
    /\ labels_out' =
          ZipLabels(label_positions,
                    [k \in 1..Len(props.labels[1]) |->
                        LabelText(props.labels[1][k])], 1)
    /\ pc' = "done"
    /\ UNCHANGED <<props, idx, normalized_series, vtotal, m_start_angle,
                   color_var, class_index, label_positions, slices, message,
                   ref_start_angle, ref_walk>>

\* pie.rs 252-279
LabelsFromValues ==
    /\ pc = "labels"
    /\ ~IsSome(props.labels)
    /\ props.show_labels
    /\ labels_out' =
          ZipLabels(label_positions,
                    [k \in 1..Len(props.series) |->
                        IF IsSome(props.label_interpolation)
                        THEN FuncText(props.label_interpolation[1],
                                      props.series[k])
                        ELSE ToStringText(props.series[k])], 1)
    /\ pc' = "done"
    /\ UNCHANGED <<props, idx, normalized_series, vtotal, m_start_angle,
                   color_var, class_index, label_positions, slices, message,
                   ref_start_angle, ref_walk>>

\* pie.rs 280-282
LabelsNone ==
    /\ pc = "labels"
    /\ ~IsSome(props.labels)
    /\ ~props.show_labels
    /\ labels_out' = <<>>
    /\ pc' = "done"
    /\ UNCHANGED <<props, idx, normalized_series, vtotal, m_start_angle,
                   color_var, class_index, label_positions, slices, message,
                   ref_start_angle, ref_walk>>

Next ==
    \/ RenderEmpty
    \/ Setup
    \/ EmitSlice
    \/ SkipZero
    \/ LabelsExplicit
    \/ LabelsFromValues
    \/ LabelsNone

Spec == Init /\ [][Next]_vars

-----------------------------------------------------------------------------
(* Properties *)

WalkOver == pc \in {"labels", "done"}

NonZeroEntries == {k \in 1..Len(normalized_series) : normalized_series[k] # Zero}

\* The spans end_angle - start_angle of the slices, added up in f32.
RECURSIVE SpanSumFrom(_, _)
SpanSumFrom(acc, ss) ==
    IF ss = <<>> THEN acc
    ELSE SpanSumFrom(
             FAdd(acc, FSub(ss[1].angles.end_angle, ss[1].angles.start_angle)),
             Tail(ss))

SpanSum(ss) == SpanSumFrom(Zero, ss)

NoClamp == \A j \in 1..Len(slices) : ~slices[j].angles.clamped

\* Floating-point tolerance on angles, in degrees (1/1000), and relative
\* tolerance on totals (1/1000000).
AngleTol == FQ(1, 1000)

RelTol == FQ(1, 1000000)

Near(a, b) == FLe(FAbs(FSub(a, b)), AngleTol)

Close(a, b) ==
    \/ a = b
    \/ /\ IsFinite(a)
       /\ IsFinite(b)
       /\ FLe(FAbs(FSub(a, b)), FMul(FAbs(b), RelTol))

\* C1: after the walk there are as many label anchors as series entries, and
\* anchor k is the one of entry k: the sentinel when entry k is zero, the
\* projected mid-angle of the slice emitted for entry k otherwise; during the
\* walk one anchor has been pushed per entry visited.
C1_AnchorsAligned ==
    /\ pc = "walk" => Len(label_positions) = idx - 1
    /\ WalkOver /\ props.series # <<>> =>
        /\ Len(label_positions) = Len(props.series)
        /\ \A k \in 1..Len(props.series) :
              IF normalized_series[k] = Zero
              THEN label_positions[k] = SuppressedAnchor
              ELSE \E j \in 1..Len(slices) :
                      /\ slices[j].entry = k
                      /\ label_positions[k] =
                             polar_to_cartesian(center(props),
                                 label_radius(props),
                                 slices[j].angles.mid_angle)

C1_Witness ==
    /\ pc = "done"
    /\ Len(props.series) = 3
    /\ normalized_series[1] = Zero
    /\ normalized_series[2] # Zero
    /\ normalized_series[3] = Zero
    /\ Len(label_positions) = 3

\* C2: a step on a zero entry emits no slice, pushes the sentinel anchor and
\* leaves m_start_angle, class_index and color_var as they were; after the
\* walk the number of slices is the number of non-zero normalized entries.
C2_ZeroEntryFrame ==
    /\ [](WalkOver /\ props.series # <<>>
            => Len(slices) = Cardinality(NonZeroEntries))
    /\ [][ ( /\ pc = "walk"
             /\ idx <= Len(normalized_series)
             /\ normalized_series[idx] = Zero )
           => /\ slices' = slices
              /\ label_positions' = Append(label_positions, SuppressedAnchor)
              /\ m_start_angle' = m_start_angle
              /\ class_index' = class_index
              /\ color_var' = color_var ]_vars

C2_Witness ==
    /\ pc = "done"
    /\ Len(props.series) = 3
    /\ normalized_series[2] = Zero
    /\ Len(slices) = 2
    /\ slices[2].index = 1
    /\ slices[2].angles.start_angle = slices[1].angles.end_angle

\* C3 as stated: whenever values_total > 0 and a slice was emitted, the
\* bookkeeping spans of the emitted slices add up to 360 degrees, within
\* the floating-point tolerance.
C3_PartitionAlways ==
    WalkOver /\ FLt(Zero, vtotal) /\ slices # <<>>
        => Near(SpanSum(slices), F(360))

\* C3 amended: the spans add up to 360 degrees, within the floating-point
\* tolerance, when values_total equals the normalized sum and the
\* full-circle clamp fired on no slice; in every case with values_total > 0
\* they add up to at most 360 degrees, within the tolerance.
C3_PartitionAmended ==
    WalkOver /\ FLt(Zero, vtotal) /\ slices # <<>> =>
        /\ FLe(SpanSum(slices), FAdd(F(360), AngleTol))
        /\ (vtotal = normalized_sum(props) /\ NoClamp)
              => Near(SpanSum(slices), F(360))

C3_Witness ==
    /\ pc = "done"
    /\ Len(slices) = 3
    /\ vtotal = normalized_sum(props)
    /\ NoClamp
    /\ props.start_angle = F(-60)
    /\ Near(SpanSum(slices), F(360))

\* C4 as stated: when labels are produced, every non-zero entry gets a
\* label, whatever the coordinates of its anchor.
C4_NonZeroLabelled ==
    pc = "done" /\ (IsSome(props.labels) \/ props.show_labels) =>
        \A k \in NonZeroEntries :
            \E j \in 1..Len(labels_out) : labels_out[j].entry = k

\* C5 as stated: the inner radius of a donut slice is never negative.
C5_InnerRadiusNonNegative ==
    \A j \in 1..Len(slices) :
        slices[j].path.kind = "donut"
            => FLe(Zero, slices[j].path.inner_radius)

\* The claim's clamp(showRatio, 0.0001, 1.0), written out.
ClampedRatio(r) ==
    IF FLt(r, FQ(1, 10000)) THEN FQ(1, 10000)
    ELSE IF FLt(F(1), r) THEN F(1) ELSE r

\* C6: values_total follows the precedence show_ratio, total, natural sum,
\* with the stated formula in each case, up to the rounding of f32 (the
\* sums are the f32 sums; a division by a zero raw sum gives an infinite
\* scaled total, or a NaN or -inf that max discards), and is never below
\* the normalized sum.
C6_ResolveTotal ==
    pc \in {"walk", "labels", "done"} =>
        LET ns == normalized_sum(props)
            rs == raw_sum(props)
        IN  /\ ~IsNaN(vtotal)
            /\ FLe(ns, vtotal)
            /\ IF IsSome(props.show_ratio)
               THEN Close(vtotal,
                          FDiv(ns, ClampedRatio(props.show_ratio[1])))
               ELSE IF IsSome(props.total)
               THEN IF rs # Zero
                    THEN Close(vtotal,
                               FMax(FDiv(FMul(ns, props.total[1]), rs), ns))
                    ELSE vtotal =
                           (IF FLt(Zero, ns) /\ FLt(Zero, props.total[1])
                            THEN Inf ELSE ns)
               ELSE vtotal = ns

C6_Witness ==
    /\ pc = "done"
    /\ IsSome(props.show_ratio)
    /\ IsSome(props.total)
    /\ normalized_sum(props) = F(2)
    /\ vtotal = F(4)

\* C7: an empty series gives the error message and nothing else: no
\* normalization, no slice, no anchor, no label; and the message is given
\* for an empty series only.
C7_EmptySeriesError ==
    /\ props.series = <<>> =>
          /\ pc \in {"start", "error"}
          /\ pc = "error" => message = Some("Pie chart error: empty series")
          /\ slices = <<>>
          /\ label_positions = <<>>
          /\ labels_out = <<>>
          /\ normalized_series = <<>>
    /\ (pc = "error" \/ IsSome(message)) => props.series = <<>>

C7_Witness ==
    /\ pc = "error"
    /\ props.series = <<>>
    /\ IsSome(message)

\* C8 as stated: the drawn start of every slice after the first is at most
\* 0.4 degrees (within the floating-point tolerance) before its bookkeeping
\* start and never after it; the drawn start of the first slice is its
\* bookkeeping start.
C8_DrawnStartEarlier ==
    \A j \in 1..Len(slices) :
        LET a == slices[j].angles
        IN  IF slices[j].index = 0
            THEN a.overlap_start_angle = a.start_angle
            ELSE /\ FLe(a.overlap_start_angle, a.start_angle)
                 /\ FLe(FSub(a.start_angle, a.overlap_start_angle),
                        FAdd(Overlap, AngleTol))

\* C9 as stated: the bookkeeping angles of every slice (start, end carried
\* to the next slice, label mid-angle) are those of the walk without the
\* 0.4-degree overlap.
C9_BookkeepingUnaffected ==
    /\ Len(ref_walk) = Len(slices)
    /\ \A j \in 1..Len(slices) :
          /\ slices[j].angles.start_angle = ref_walk[j].start_angle
          /\ slices[j].angles.end_angle = ref_walk[j].end_angle
          /\ slices[j].angles.mid_angle = ref_walk[j].mid_angle

\* C10 as stated: the large-arc flag in the path is 1 exactly when the drawn
\* sweep, from the overlapped start to the end, exceeds 180 degrees.
C10_FlagFromDrawnSweep ==
    \A j \in 1..Len(slices) :
        (slices[j].path.large_arc = 1)
            <=> FLt(F(180), FSub(slices[j].angles.end_angle,
                                 slices[j].angles.overlap_start_angle))

\* C10 amended: the large-arc flag in the path (and the one of the inner arc
\* of a donut) is 1 exactly when the bookkeeping span, the f32 difference of
\* the end and the uncorrected start, exceeds 180 degrees, and 0 otherwise.
C10_FlagFromBookkeepingSpan ==
    \A j \in 1..Len(slices) :
        LET big == FLt(F(180), FSub(slices[j].angles.end_angle,
                                    slices[j].angles.start_angle))
        IN  /\ slices[j].path.large_arc = (IF big THEN 1 ELSE 0)
            /\ slices[j].path.kind = "donut"
                  => slices[j].path.large_arc_inside = (IF big THEN 1 ELSE 0)

C10_Witness ==
    \E j \in 1..Len(slices) :
        /\ slices[j].index # 0
        /\ slices[j].path.large_arc = 0
        /\ FLt(F(180), FSub(slices[j].angles.end_angle,
                            slices[j].angles.overlap_start_angle))

====
